---- MODULE Spec2Model ----
(***************************************************************************)
(* Eco-Grid Sentinel firmware: the V2 combined firmware                    *)
(* (firmware/EcoSentinel_Firmware.ino, sensor or gateway by IS_GATEWAY),   *)
(* the production sensor node (unnamed/part_002) and the production        *)
(* gateway node (unnamed/part_003).  One device is modelled; its firmware  *)
(* variant is fixed at power-on.  The piezo line, the band energies of an  *)
(* audio window, the battery reading and the frames arriving at a gateway  *)
(* are the environment.                                                    *)
(***************************************************************************)
EXTENDS Integers, Sequences, FiniteSets, TLC

VARIABLES
    variant,            \* which firmware image runs on the device
    pc,                 \* position in the firmware
    state,              \* PowerState of the device (spec 3): set where the code enters it
    trace,              \* PowerStates entered since the last boot, in order
    wakeCause,          \* esp_sleep_get_wakeup_cause() of this boot
    radioOk,            \* result of LoRa.begin() in this boot
    led,                \* LED_PIN level
    armed,              \* ext0 wake source enabled
    piezo,              \* PIEZO_PIN level (environment)
    vibrationTriggered, \* V2 global
    i,                  \* V2: vibration loop index
    hits,               \* V2: active vibration reads
    engine_energy,      \* low band sum of the window being classified
    nature_energy,      \* high band sum of the window being classified
    chainsaw_votes,     \* production sensor tally
    wind_votes,
    total_samples,
    verdict,            \* outcome of the episode's classification
    txType,             \* argument of the pending send_packet / send_lora_alert
    ret,                \* where the pending send returns to
    sent,               \* frames handed to the radio since the last boot
    samplerInvoked,     \* the audio Sampler ran since the last boot
    rx,                 \* gateway: packet waiting in the transceiver
    serial,             \* gateway: DATA: lines written to Serial
    heard,              \* gateway: frames the transceiver has received, in order
    txBusy,             \* the transceiver is transmitting a packet
    elapsed,            \* production sensor: millis() - start_time >= duration
    triggerPending,     \* the piezo line rose during the current sleep entry
    vReal,              \* FFT buffer, real parts (index 0..)
    vImag,              \* FFT buffer, imaginary parts
    si,                 \* index of the sampling loop
    taken,              \* readings of MIC_PIN taken in the current window, in order
    win,                \* analysis windows completed
    tone,               \* bin that holds the energy of the analysed spectrum
    bin,                \* index of the band-sum loops
    lowSummed,          \* bins added to engine_energy
    highSummed,         \* bins added to nature_energy
    systemStatus,       \* dashboard App: connection banner
    nodes,              \* dashboard App: where the displayed node list came from
    logs,               \* dashboard App: poll whose response filled the log list (0: none)
    activeAlertNodeId,  \* dashboard App: poll whose response set the active alert (0: none)
    polls,              \* dashboard App: each status poll, from issue to its outcome
    selected,           \* ForestSelector: chosen forest ("" when none)
    loading,            \* ForestSelector: loading flag
    deployReqs          \* ForestSelector: deploy requests in flight

vars == <<variant, pc, state, trace, wakeCause, radioOk, led, armed, piezo,
          vibrationTriggered, i, hits, engine_energy, nature_energy,
          chainsaw_votes, wind_votes, total_samples, verdict, txType, ret,
          sent, samplerInvoked, rx, serial, heard, txBusy, elapsed,
          triggerPending, vReal, vImag, si, taken, win, tone, bin, lowSummed,
          highSummed, systemStatus, nodes, logs, activeAlertNodeId, polls,
          selected, loading, deployReqs>>

---------------------------------------------------------------------------
(* Bounds of the model *)

\* most analysis windows that fit in the 30 s monitoring duration
MaxWindows == 30
\* largest final tally drawn for the verdict function
MaxTally == 100
\* frames a gateway run is followed for
MaxSerial == 3

(* Program constants *)

VIB_READS == 100
VIB_THRESHOLD == 5
ENERGY_FLOOR == 50000
RATIO_MULT == 2
ADC_MAX == 4095

NODE_ID == "NODE_A"

Variants == {"V2_SENSOR", "V2_GATEWAY", "PROD_SENSOR", "PROD_GATEWAY"}
IsV2Sensor == variant = "V2_SENSOR"
IsProdSensor == variant = "PROD_SENSOR"
IsSensor == variant \in {"V2_SENSOR", "PROD_SENSOR"}
IsGateway == variant \in {"V2_GATEWAY", "PROD_GATEWAY"}

PowerStates == {"DORMANT", "BOOTING", "MONITORING", "TRANSMITTING"}
Verdicts == {"NONE", "SAFE", "CHAINSAW", "CLIMBING", "TREE_FALL", "HEARTBEAT"}

\* (engine_energy, nature_energy) of one analysed window
EnergyPairs ==
    { <<80000, 0>>,        \* dominant low band
      <<50000, 0>>,        \* exactly on the floor
      <<60000, 30000>>,    \* exactly twice the high band
      <<100001, 50000>>,   \* between 2*nature and 2*(nature+1)
      <<100003, 50000>>,   \* above both ratio tests
      <<0, 1000>>,         \* wind
      <<40000, 10000>> }   \* below the floor, above the high band

\* raw ADC readings of BAT_PIN
BatReadings == {0, 2296, 4095}

NoPacket == <<"none">>
\* payload fields of the frames that reach a gateway
IncomingFrames ==
    { <<"NODE_A", "CHAINSAW">>,
      <<"MILLIS", "NODE_A", "HEARTBEAT", "3.7V">>,
      <<>> }

---------------------------------------------------------------------------
(* Pure functions *)

\* mutant: the absolute floor is not tested
ChainsawSignature_noFloor(e, n) == e > n * RATIO_MULT

\* production sensor: the window votes chainsaw
ChainsawSignature(e, n) == e > ENERGY_FLOOR /\ e > n * RATIO_MULT

\* production sensor: the window votes wind (only when it did not vote chainsaw)
WindSignature(e, n) == n > e

\* V2: ratio = engine / (nature + 1); ratio > 2.0 && engine > 50000
V2ChainsawDetected(e, n) == e > RATIO_MULT * (n + 1) /\ e > ENERGY_FLOOR

\* mutant: >= instead of >
ChainsawConfirmed_atLeast(v, t) == v * 20 >= t * 3

\* mutant: a threshold of 20% instead of 15%
ChainsawConfirmed_fifth(v, t) == v * 5 > t

\* chainsaw_votes > total_samples * 0.15, in exact arithmetic (0.15 = 3/20)
ChainsawConfirmed(v, t) == v * 20 > t * 3

\* mutant: a tally that does not confirm a chainsaw reports SAFE
FinalVerdict_safe(v, t) == IF ChainsawConfirmed(v, t) THEN "CHAINSAW" ELSE "SAFE"

\* CHAINSAW when confirmed, TREE_FALL otherwise
FinalVerdict(v, t) == IF ChainsawConfirmed(v, t) THEN "CHAINSAW" ELSE "TREE_FALL"

\* String(battery_volts, 1) + "V" with battery_volts = raw / 4095.0 * 3.3 * 2
BatteryTenths(raw) == (raw * 66 * 2 + ADC_MAX) \div (2 * ADC_MAX)
BatteryField(raw) ==
    ToString(BatteryTenths(raw) \div 10) \o "." \o ToString(BatteryTenths(raw) % 10) \o "V"

\* mutant: the battery field is left out of the payload
ProdFrame_noBattery(type, raw) == <<"MILLIS", NODE_ID, type>>

\* payload fields, in wire order (joined by ",")
ProdFrame(type, raw) == <<"MILLIS", NODE_ID, type, BatteryField(raw)>>
V2Frame(type) == <<NODE_ID, type>>

\* String incoming = ""; while (LoRa.available()) incoming += (char)LoRa.read();
RECURSIVE ReadAll(_)
ReadAll(f) == IF f = <<>> THEN <<>> ELSE <<Head(f)>> \o ReadAll(Tail(f))

\* Serial.print("DATA:"); Serial.println(incoming): one line on the serial port
SerialLine(incoming) == [marker |-> "DATA:", frame |-> incoming]

FrameType(f) == IF Len(f) = 4 THEN f[3] ELSE f[2]

Enter(s) == /\ state' = s
            /\ trace' = Append(trace, s)

---------------------------------------------------------------------------
\* the sample-level variables while the firmware is followed at window level
DspIdle ==
    /\ vReal = <<>>
    /\ vImag = <<>>
    /\ si = 0
    /\ taken = <<>>
    /\ win = 0
    /\ tone = 0
    /\ bin = 0
    /\ lowSummed = {}
    /\ highSummed = {}

\* number of status polls of the dashboard that are followed
MaxPolls == 3

PollIds == 1..MaxPolls

\* the dashboard as its components are constructed (useState initial values)
DashIdle ==
    /\ systemStatus = "CONNECTING..."
    /\ nodes = "EMPTY"
    /\ logs = 0
    /\ activeAlertNodeId = 0
    /\ polls = [k \in PollIds |-> "unissued"]
    /\ selected = ""
    /\ loading = FALSE
    /\ deployReqs = 0

Init ==
    /\ variant \in Variants
    /\ pc = "boot"
    /\ state = "BOOTING"
    /\ trace = <<"BOOTING">>
    /\ wakeCause = "POWERON"
    /\ radioOk = FALSE
    /\ led = FALSE
    /\ armed = FALSE
    /\ piezo = FALSE
    /\ vibrationTriggered = FALSE
    /\ i = 0
    /\ hits = 0
    /\ engine_energy = 0
    /\ nature_energy = 0
    /\ chainsaw_votes = 0
    /\ wind_votes = 0
    /\ total_samples = 0
    /\ verdict = "NONE"
    /\ txType = "NONE"
    /\ ret = "none"
    /\ sent = <<>>
    /\ samplerInvoked = FALSE
    /\ rx = NoPacket
    /\ serial = <<>>
    /\ heard = <<>>
    /\ txBusy = FALSE
    /\ elapsed = FALSE
    /\ triggerPending = FALSE
    /\ DspIdle
    /\ DashIdle

tallyVars == <<chainsaw_votes, wind_votes, total_samples>>
energyVars == <<engine_energy, nature_energy>>
vibVars == <<vibrationTriggered, i, hits>>
gwVars == <<rx, serial>>
dspVars == <<vReal, vImag, si, taken, win, tone, bin, lowSummed, highSummed>>
dashVars == <<systemStatus, nodes, logs, activeAlertNodeId, polls, selected,
              loading, deployReqs>>
bootVars == <<variant, wakeCause, radioOk>>

---------------------------------------------------------------------------
(* setup(), all variants: everything up to the result of LoRa.begin() *)

\* mutant: the gateway branch of setup() does not return
setup_LoRaBegin_noReturn ==
    /\ pc = "boot"
    /\ \E ok \in BOOLEAN :
        /\ radioOk' = ok
        /\ pc' = IF ~ok THEN "halt" ELSE "check_wake"
    /\ UNCHANGED <<variant, state, trace, wakeCause, led, armed, piezo, vibVars,
                   energyVars, tallyVars, verdict, txType, ret, sent,
                   samplerInvoked, gwVars, heard, txBusy, elapsed,
                   triggerPending>>
    /\ UNCHANGED <<dspVars, dashVars>>

\* mutant: the result of LoRa.begin() is recorded but not acted on
setup_LoRaBegin_ignoresFailure ==
    /\ pc = "boot"
    /\ \E ok \in BOOLEAN :
        /\ radioOk' = ok
        /\ pc' = IF IsGateway THEN "gw_loop" ELSE "check_wake"
    /\ UNCHANGED <<variant, state, trace, wakeCause, led, armed, piezo, vibVars,
                   energyVars, tallyVars, verdict, txType, ret, sent,
                   samplerInvoked, gwVars>>
    /\ UNCHANGED <<heard, txBusy, elapsed, triggerPending>>
    /\ UNCHANGED <<dspVars, dashVars>>

setup_LoRaBegin ==
    /\ pc = "boot"
    /\ \E ok \in BOOLEAN :
        /\ radioOk' = ok
        /\ pc' = IF ~ok THEN "halt"                \* while (1);
                 ELSE IF IsGateway THEN "gw_loop"  \* setup returns, loop() runs
                 ELSE "check_wake"
    /\ UNCHANGED <<variant, state, trace, wakeCause, led, armed, piezo, vibVars,
                   energyVars, tallyVars, verdict, txType, ret, sent,
                   samplerInvoked, gwVars>>
    /\ UNCHANGED <<heard, txBusy, elapsed, triggerPending>>
    /\ UNCHANGED <<dspVars, dashVars>>

(* V2 sensor setup(): the wake cause decides between analyze_environment()  *)
(* and going straight to goToDeepSleep()                                    *)
V2_setup_CheckWakeup ==
    /\ pc = "check_wake"
    /\ IsV2Sensor
    /\ IF wakeCause = "EXT0"
       THEN /\ vibrationTriggered' = TRUE
            /\ pc' = "v2_analyze"
       ELSE /\ vibrationTriggered' = vibrationTriggered
            /\ pc' = "arm"
    /\ UNCHANGED <<bootVars, state, trace, led, armed, piezo, i, hits, energyVars,
                   tallyVars, verdict, txType, ret, sent, samplerInvoked, gwVars>>
    /\ UNCHANGED <<heard, txBusy, elapsed, triggerPending>>
    /\ UNCHANGED <<dspVars, dashVars>>

\* mutant: the analysis runs whatever the wake cause
Prod_setup_CheckWakeup_alwaysAnalyse ==
    /\ pc = "check_wake"
    /\ IsProdSensor
    /\ pc' = "prod_enter"
    /\ UNCHANGED <<bootVars, state, trace, txType, ret, led, armed, piezo, vibVars,
                   energyVars, tallyVars, verdict, sent, samplerInvoked, gwVars>>
    /\ UNCHANGED <<heard, txBusy, elapsed, triggerPending>>
    /\ UNCHANGED <<dspVars, dashVars>>

\* mutant: the wake cause test is inverted
Prod_setup_CheckWakeup_inverted ==
    /\ pc = "check_wake"
    /\ IsProdSensor
    /\ IF wakeCause # "EXT0"
       THEN /\ pc' = "prod_enter"
            /\ UNCHANGED <<state, trace, txType, ret>>
       ELSE /\ Enter("TRANSMITTING")
            /\ txType' = "HEARTBEAT"
            /\ ret' = "arm"
            /\ pc' = "send"
    /\ UNCHANGED <<bootVars, led, armed, piezo, vibVars, energyVars, tallyVars,
                   verdict, sent, samplerInvoked, gwVars>>
    /\ UNCHANGED <<heard, txBusy, elapsed, triggerPending>>
    /\ UNCHANGED <<dspVars, dashVars>>

(* production sensor setup(): run_ai_analysis() or send_packet("HEARTBEAT") *)
Prod_setup_CheckWakeup ==
    /\ pc = "check_wake"
    /\ IsProdSensor
    /\ IF wakeCause = "EXT0"
       THEN /\ pc' = "prod_enter"
            /\ UNCHANGED <<state, trace, txType, ret>>
       ELSE /\ Enter("TRANSMITTING")
            /\ txType' = "HEARTBEAT"
            /\ ret' = "arm"
            /\ pc' = "send"
    /\ UNCHANGED <<bootVars, led, armed, piezo, vibVars, energyVars, tallyVars,
                   verdict, sent, samplerInvoked, gwVars>>
    /\ UNCHANGED <<heard, txBusy, elapsed, triggerPending>>
    /\ UNCHANGED <<dspVars, dashVars>>

---------------------------------------------------------------------------
(* V2 analyze_environment() *)

\* LED on; if (vibrationTriggered) start the vibration loop
analyze_environment_enter ==
    /\ pc = "v2_analyze"
    /\ led' = TRUE
    /\ Enter("MONITORING")
    /\ i' = 0
    /\ hits' = 0
    /\ pc' = IF vibrationTriggered THEN "v2_vib" ELSE "v2_audio"
    /\ UNCHANGED <<bootVars, armed, piezo, vibrationTriggered, energyVars,
                   tallyVars, verdict, txType, ret, sent, samplerInvoked, gwVars>>
    /\ UNCHANGED <<heard, txBusy, elapsed, triggerPending>>
    /\ UNCHANGED <<dspVars, dashVars>>

\* one iteration of for (i < 100): if (digitalRead(PIEZO_PIN) == HIGH) hits++
analyze_environment_vibRead ==
    /\ pc = "v2_vib"
    /\ i < VIB_READS
    /\ hits' = IF piezo THEN hits + 1 ELSE hits
    /\ i' = i + 1
    /\ UNCHANGED <<bootVars, pc, state, trace, led, armed, piezo,
                   vibrationTriggered, energyVars, tallyVars, verdict, txType,
                   ret, sent, samplerInvoked, gwVars>>
    /\ UNCHANGED <<heard, txBusy, elapsed, triggerPending>>
    /\ UNCHANGED <<dspVars, dashVars>>

\* mutant: the goToDeepSleep() after the CLIMBING alert is missing, so the
\* send returns into the audio analysis
analyze_environment_vibDecide_fallthrough ==
    /\ pc = "v2_vib"
    /\ i = VIB_READS
    /\ IF hits > VIB_THRESHOLD
       THEN /\ verdict' = "CLIMBING"
            /\ Enter("TRANSMITTING")
            /\ txType' = "CLIMBING"
            /\ ret' = "v2_audio"
            /\ pc' = "send"
       ELSE /\ pc' = "v2_audio"
            /\ UNCHANGED <<verdict, state, trace, txType, ret>>
    /\ UNCHANGED <<bootVars, led, armed, piezo, vibVars, energyVars, tallyVars,
                   sent, samplerInvoked, gwVars>>
    /\ UNCHANGED <<heard, txBusy, elapsed, triggerPending>>
    /\ UNCHANGED <<dspVars, dashVars>>

\* mutant: hits >= 5 instead of hits > 5
analyze_environment_vibDecide_offByOne ==
    /\ pc = "v2_vib"
    /\ i = VIB_READS
    /\ IF hits >= VIB_THRESHOLD
       THEN /\ verdict' = "CLIMBING"
            /\ Enter("TRANSMITTING")
            /\ txType' = "CLIMBING"
            /\ ret' = "arm"
            /\ pc' = "send"
       ELSE /\ pc' = "v2_audio"
            /\ UNCHANGED <<verdict, state, trace, txType, ret>>
    /\ UNCHANGED <<bootVars, led, armed, piezo, vibVars, energyVars, tallyVars,
                   sent, samplerInvoked, gwVars>>
    /\ UNCHANGED <<heard, txBusy, elapsed, triggerPending>>
    /\ UNCHANGED <<dspVars, dashVars>>

\* if (hits > 5) { send_lora_alert("CLIMBING"); delay; goToDeepSleep(); }
\* esp_deep_sleep_start() does not return, so the send returns into the sleep entry
analyze_environment_vibDecide ==
    /\ pc = "v2_vib"
    /\ i = VIB_READS
    /\ IF hits > VIB_THRESHOLD
       THEN /\ verdict' = "CLIMBING"
            /\ Enter("TRANSMITTING")
            /\ txType' = "CLIMBING"
            /\ ret' = "arm"
            /\ pc' = "send"
       ELSE /\ pc' = "v2_audio"
            /\ UNCHANGED <<verdict, state, trace, txType, ret>>
    /\ UNCHANGED <<bootVars, led, armed, piezo, vibVars, energyVars, tallyVars,
                   sent, samplerInvoked, gwVars>>
    /\ UNCHANGED <<heard, txBusy, elapsed, triggerPending>>
    /\ UNCHANGED <<dspVars, dashVars>>

\* mutant: the SAFE branch sends an alert as well
analyze_environment_audio_alertsSafe ==
    /\ pc = "v2_audio"
    /\ \E p \in EnergyPairs :
        /\ engine_energy' = p[1]
        /\ nature_energy' = p[2]
        /\ verdict' = IF V2ChainsawDetected(p[1], p[2]) THEN "CHAINSAW" ELSE "SAFE"
        /\ Enter("TRANSMITTING")
        /\ txType' = IF V2ChainsawDetected(p[1], p[2]) THEN "CHAINSAW" ELSE "SAFE"
        /\ ret' = "v2_led_off"
        /\ pc' = "send"
    /\ samplerInvoked' = TRUE
    /\ UNCHANGED <<bootVars, led, armed, piezo, vibVars, tallyVars, sent, gwVars>>
    /\ UNCHANGED <<heard, txBusy, elapsed, triggerPending>>
    /\ UNCHANGED <<dspVars, dashVars>>

\* sample 512 readings, FFT, band sums, threshold logic (one window)
analyze_environment_audio ==
    /\ pc = "v2_audio"
    /\ \E p \in EnergyPairs :
        /\ engine_energy' = p[1]
        /\ nature_energy' = p[2]
        /\ IF V2ChainsawDetected(p[1], p[2])
           THEN /\ verdict' = "CHAINSAW"
                /\ Enter("TRANSMITTING")
                /\ txType' = "CHAINSAW"
                /\ ret' = "v2_led_off"
                /\ pc' = "send"
           ELSE /\ verdict' = "SAFE"
                /\ pc' = "v2_led_off"
                /\ UNCHANGED <<state, trace, txType, ret>>
    /\ samplerInvoked' = TRUE
    /\ UNCHANGED <<bootVars, led, armed, piezo, vibVars, tallyVars, sent, gwVars>>
    /\ UNCHANGED <<heard, txBusy, elapsed, triggerPending>>
    /\ UNCHANGED <<dspVars, dashVars>>

\* digitalWrite(LED_PIN, LOW); return to setup(), which calls goToDeepSleep()
analyze_environment_ledOff ==
    /\ pc = "v2_led_off"
    /\ led' = FALSE
    /\ pc' = "arm"
    /\ UNCHANGED <<bootVars, state, trace, armed, piezo, vibVars, energyVars,
                   tallyVars, verdict, txType, ret, sent, samplerInvoked, gwVars>>
    /\ UNCHANGED <<heard, txBusy, elapsed, triggerPending>>
    /\ UNCHANGED <<dspVars, dashVars>>

\* mutant: the packet is sent a second time
send_lora_alert_retry ==
    /\ pc = "send"
    /\ IsV2Sensor
    /\ sent' = Append(Append(sent, V2Frame(txType)), V2Frame(txType))
    /\ txBusy' = TRUE
    /\ pc' = "tx_wait"
    /\ UNCHANGED <<bootVars, state, trace, led, armed, piezo, vibVars, energyVars,
                   tallyVars, verdict, txType, ret, samplerInvoked, gwVars>>
    /\ UNCHANGED <<heard, elapsed, triggerPending>>
    /\ UNCHANGED <<dspVars, dashVars>>

\* send_lora_alert(type): payload = NODE_ID + "," + type, one packet handed to
\* the transceiver (beginPacket, print, endPacket starts the transmission)
send_lora_alert ==
    /\ pc = "send"
    /\ IsV2Sensor
    /\ sent' = Append(sent, V2Frame(txType))
    /\ txBusy' = TRUE
    /\ pc' = "tx_wait"
    /\ UNCHANGED <<bootVars, state, trace, led, armed, piezo, vibVars, energyVars,
                   tallyVars, verdict, txType, ret, samplerInvoked, gwVars>>
    /\ UNCHANGED <<heard, elapsed, triggerPending>>
    /\ UNCHANGED <<dspVars, dashVars>>

---------------------------------------------------------------------------
(* production sensor run_ai_analysis() *)

\* mutant: the counters are declared without initialisers
run_ai_analysis_enter_uninitialised ==
    /\ pc = "prod_enter"
    /\ led' = TRUE
    /\ Enter("MONITORING")
    /\ elapsed' = FALSE
    /\ \E t \in 0..(MaxWindows - 1) : \E c \in 0..t :
        /\ chainsaw_votes' = c
        /\ wind_votes' = t - c
        /\ total_samples' = t
    /\ pc' = "prod_loop"
    /\ UNCHANGED <<bootVars, armed, piezo, vibVars, energyVars, verdict, txType,
                   ret, sent, samplerInvoked, gwVars, heard, txBusy,
                   triggerPending>>
    /\ UNCHANGED <<dspVars, dashVars>>

\* LED on, start_time, the three counters set to 0
run_ai_analysis_enter ==
    /\ pc = "prod_enter"
    /\ led' = TRUE
    /\ Enter("MONITORING")
    /\ elapsed' = FALSE
    /\ chainsaw_votes' = 0
    /\ wind_votes' = 0
    /\ total_samples' = 0
    /\ pc' = "prod_loop"
    /\ UNCHANGED <<bootVars, armed, piezo, vibVars, energyVars, verdict, txType,
                   ret, sent, samplerInvoked, gwVars>>
    /\ UNCHANGED <<heard, txBusy, triggerPending>>
    /\ UNCHANGED <<dspVars, dashVars>>

\* mutant: a window that votes chainsaw is counted twice
run_ai_analysis_window_doubleCount ==
    /\ pc = "prod_loop"
    /\ ~elapsed
    /\ total_samples < MaxWindows
    /\ \E p \in EnergyPairs :
        /\ engine_energy' = p[1]
        /\ nature_energy' = p[2]
        /\ chainsaw_votes' = IF ChainsawSignature(p[1], p[2])
                             THEN chainsaw_votes + 2 ELSE chainsaw_votes
        /\ wind_votes' = IF ~ChainsawSignature(p[1], p[2]) /\ WindSignature(p[1], p[2])
                         THEN wind_votes + 1 ELSE wind_votes
    /\ total_samples' = total_samples + 1
    /\ samplerInvoked' = TRUE
    /\ UNCHANGED <<bootVars, pc, state, trace, led, armed, piezo, vibVars,
                   verdict, txType, ret, sent, gwVars, heard, txBusy, elapsed,
                   triggerPending>>
    /\ UNCHANGED <<dspVars, dashVars>>

\* one iteration of while (millis() - start_time < duration): sample, FFT,
\* band sums, vote, total_samples++
run_ai_analysis_window ==
    /\ pc = "prod_loop"
    /\ ~elapsed
    /\ total_samples < MaxWindows
    /\ \E p \in EnergyPairs :
        /\ engine_energy' = p[1]
        /\ nature_energy' = p[2]
        /\ chainsaw_votes' = IF ChainsawSignature(p[1], p[2])
                             THEN chainsaw_votes + 1 ELSE chainsaw_votes
        /\ wind_votes' = IF ~ChainsawSignature(p[1], p[2]) /\ WindSignature(p[1], p[2])
                         THEN wind_votes + 1 ELSE wind_votes
    /\ total_samples' = total_samples + 1
    /\ samplerInvoked' = TRUE
    /\ UNCHANGED <<bootVars, pc, state, trace, led, armed, piezo, vibVars,
                   verdict, txType, ret, sent, gwVars>>
    /\ UNCHANGED <<heard, txBusy, elapsed, triggerPending>>
    /\ UNCHANGED <<dspVars, dashVars>>

\* 30 s have passed since start_time.  The loop condition is first tested
\* right after start_time is read, so a window has run by then.
DurationElapses ==
    /\ pc = "prod_loop"
    /\ total_samples >= 1
    /\ ~elapsed
    /\ elapsed' = TRUE
    /\ UNCHANGED <<bootVars, pc, state, trace, led, armed, piezo, vibVars,
                   energyVars, tallyVars, verdict, txType, ret, sent,
                   samplerInvoked, gwVars, heard, txBusy, triggerPending>>
    /\ UNCHANGED <<dspVars, dashVars>>

\* mutant: the loop is left after any window, whatever the clock says
run_ai_analysis_timeUp_early ==
    /\ pc = "prod_loop"
    /\ total_samples >= 1
    /\ led' = FALSE
    /\ engine_energy' = 0
    /\ nature_energy' = 0
    /\ pc' = "prod_verdict"
    /\ UNCHANGED <<bootVars, state, trace, armed, piezo, vibVars, tallyVars,
                   verdict, txType, ret, sent, samplerInvoked, gwVars, heard,
                   txBusy, elapsed, triggerPending>>
    /\ UNCHANGED <<dspVars, dashVars>>

\* mutant: the loop condition never fails
run_ai_analysis_timeUp_never ==
    /\ pc = "prod_loop"
    /\ FALSE
    /\ UNCHANGED vars

\* the loop condition fails; LED off; the per-window band sums are out of scope
run_ai_analysis_timeUp ==
    /\ pc = "prod_loop"
    /\ elapsed
    /\ led' = FALSE
    /\ engine_energy' = 0
    /\ nature_energy' = 0
    /\ pc' = "prod_verdict"
    /\ UNCHANGED <<bootVars, state, trace, armed, piezo, vibVars, tallyVars,
                   verdict, txType, ret, sent, samplerInvoked, gwVars>>
    /\ UNCHANGED <<heard, txBusy, elapsed, triggerPending>>
    /\ UNCHANGED <<dspVars, dashVars>>

\* mutant: no else branch, an unconfirmed tally ends the episode silently
run_ai_analysis_verdict_noElse ==
    /\ pc = "prod_verdict"
    /\ IF ChainsawConfirmed(chainsaw_votes, total_samples)
       THEN /\ verdict' = "CHAINSAW"
            /\ txType' = "CHAINSAW"
            /\ Enter("TRANSMITTING")
            /\ ret' = "arm"
            /\ pc' = "send"
            /\ UNCHANGED tallyVars
       ELSE /\ pc' = "arm"
            /\ chainsaw_votes' = 0
            /\ wind_votes' = 0
            /\ total_samples' = 0
            /\ UNCHANGED <<verdict, txType, state, trace, ret>>
    /\ UNCHANGED <<bootVars, led, armed, piezo, vibVars, energyVars, sent,
                   samplerInvoked, gwVars, heard, txBusy, elapsed,
                   triggerPending>>
    /\ UNCHANGED <<dspVars, dashVars>>

\* if (chainsaw_votes > total_samples * 0.15) send_packet("CHAINSAW")
\* else send_packet("TREE_FALL")
run_ai_analysis_verdict ==
    /\ pc = "prod_verdict"
    /\ verdict' = FinalVerdict(chainsaw_votes, total_samples)
    /\ txType' = FinalVerdict(chainsaw_votes, total_samples)
    /\ Enter("TRANSMITTING")
    /\ ret' = "arm"
    /\ pc' = "send"
    /\ UNCHANGED <<bootVars, led, armed, piezo, vibVars, energyVars, tallyVars,
                   sent, samplerInvoked, gwVars>>
    /\ UNCHANGED <<heard, txBusy, elapsed, triggerPending>>
    /\ UNCHANGED <<dspVars, dashVars>>

\* send_packet(type): battery read, payload millis,NODE_ID,type,bat, one packet
\* handed to the transceiver (beginPacket, print, endPacket starts the
\* transmission)
send_packet ==
    /\ pc = "send"
    /\ IsProdSensor
    /\ \E raw \in BatReadings :
        sent' = Append(sent, ProdFrame(txType, raw))
    /\ txBusy' = TRUE
    /\ pc' = "tx_wait"
    /\ UNCHANGED <<bootVars, state, trace, led, armed, piezo, vibVars, energyVars,
                   tallyVars, verdict, txType, ret, samplerInvoked, gwVars>>
    /\ UNCHANGED <<heard, elapsed, triggerPending>>
    /\ UNCHANGED <<dspVars, dashVars>>

\* the transceiver finishes the packet (TxDone)
radio_TxDone ==
    /\ txBusy
    /\ txBusy' = FALSE
    /\ UNCHANGED <<bootVars, pc, state, trace, led, armed, piezo, vibVars,
                   energyVars, tallyVars, verdict, txType, ret, sent,
                   samplerInvoked, gwVars, heard, elapsed, triggerPending>>
    /\ UNCHANGED <<dspVars, dashVars>>

\* mutant: endPacket(true), the asynchronous form, returns at once
endPacket_return_async ==
    /\ pc = "tx_wait"
    /\ pc' = ret
    /\ chainsaw_votes' = 0
    /\ wind_votes' = 0
    /\ total_samples' = 0
    /\ UNCHANGED <<bootVars, state, trace, led, armed, piezo, vibVars, energyVars,
                   verdict, txType, ret, sent, samplerInvoked, gwVars, heard,
                   txBusy, elapsed, triggerPending>>
    /\ UNCHANGED <<dspVars, dashVars>>

\* LoRa.endPacket() returns once the packet is out; delay(500); the send
\* function returns, and with it run_ai_analysis(), whose counters go out of
\* scope
endPacket_return ==
    /\ pc = "tx_wait"
    /\ ~txBusy
    /\ pc' = ret
    /\ chainsaw_votes' = 0
    /\ wind_votes' = 0
    /\ total_samples' = 0
    /\ UNCHANGED <<bootVars, state, trace, led, armed, piezo, vibVars, energyVars,
                   verdict, txType, ret, sent, samplerInvoked, gwVars, heard,
                   txBusy, elapsed, triggerPending>>
    /\ UNCHANGED <<dspVars, dashVars>>

---------------------------------------------------------------------------
(* goToDeepSleep() / go_to_sleep(), and the wake-up that follows *)

\* mutant: the wake source is not enabled before sleeping
go_to_sleep_arm_skipped ==
    /\ pc = "arm"
    /\ pc' = "sleep_start"
    /\ UNCHANGED <<bootVars, state, trace, led, armed, piezo, vibVars, energyVars,
                   tallyVars, verdict, txType, ret, sent, samplerInvoked, gwVars,
                   heard, txBusy, elapsed, triggerPending>>
    /\ UNCHANGED <<dspVars, dashVars>>

\* esp_sleep_enable_ext0_wakeup(GPIO_NUM_33, 1)
go_to_sleep_arm ==
    /\ pc = "arm"
    /\ armed' = TRUE
    /\ pc' = "sleep_start"
    /\ UNCHANGED <<bootVars, state, trace, led, piezo, vibVars, energyVars,
                   tallyVars, verdict, txType, ret, sent, samplerInvoked, gwVars>>
    /\ UNCHANGED <<heard, txBusy, elapsed, triggerPending>>
    /\ UNCHANGED <<dspVars, dashVars>>

\* esp_deep_sleep_start(): the processor halts
go_to_sleep_start ==
    /\ pc = "sleep_start"
    /\ Enter("DORMANT")
    /\ pc' = "asleep"
    /\ UNCHANGED <<bootVars, led, armed, piezo, vibVars, energyVars, tallyVars,
                   verdict, txType, ret, sent, samplerInvoked, gwVars>>
    /\ UNCHANGED <<heard, txBusy, elapsed, triggerPending>>
    /\ UNCHANGED <<dspVars, dashVars>>

\* mutant: the V2 flag is kept in RTC memory and survives the sleep
Wake_retainsFlag ==
    /\ pc = "asleep"
    /\ armed
    /\ piezo
    /\ pc' = "boot"
    /\ wakeCause' = "EXT0"
    /\ state' = "BOOTING"
    /\ trace' = <<"BOOTING">>
    /\ radioOk' = FALSE
    /\ led' = FALSE
    /\ armed' = FALSE
    /\ i' = 0
    /\ hits' = 0
    /\ engine_energy' = 0
    /\ nature_energy' = 0
    /\ verdict' = "NONE"
    /\ txType' = "NONE"
    /\ ret' = "none"
    /\ sent' = <<>>
    /\ samplerInvoked' = FALSE
    /\ txBusy' = FALSE
    /\ elapsed' = FALSE
    /\ triggerPending' = FALSE
    /\ UNCHANGED <<variant, piezo, vibrationTriggered, tallyVars, gwVars, heard>>
    /\ UNCHANGED <<dspVars, dashVars>>

\* the armed wake line is high: the chip resets and setup() runs again with
\* wake cause EXT0; RAM and pin state are those of a fresh boot
Wake ==
    /\ pc = "asleep"
    /\ armed
    /\ piezo
    /\ pc' = "boot"
    /\ wakeCause' = "EXT0"
    /\ state' = "BOOTING"
    /\ trace' = <<"BOOTING">>
    /\ radioOk' = FALSE
    /\ led' = FALSE
    /\ armed' = FALSE
    /\ vibrationTriggered' = FALSE
    /\ i' = 0
    /\ hits' = 0
    /\ engine_energy' = 0
    /\ nature_energy' = 0
    /\ verdict' = "NONE"
    /\ txType' = "NONE"
    /\ ret' = "none"
    /\ sent' = <<>>
    /\ samplerInvoked' = FALSE
    /\ txBusy' = FALSE
    /\ elapsed' = FALSE
    /\ triggerPending' = FALSE
    /\ UNCHANGED <<variant, piezo, tallyVars, gwVars, heard>>
    /\ UNCHANGED <<dspVars, dashVars>>

\* mutant: a rising edge on the line while awake restarts the analysis, as an
\* interrupt handler attached to PIEZO_PIN would
PiezoChange_interrupts ==
    /\ IsSensor
    /\ ~(pc = "asleep" /\ armed /\ piezo)
    /\ piezo' = ~piezo
    /\ triggerPending' = (triggerPending \/ (~piezo /\ pc \in {"arm", "sleep_start"}))
    /\ pc' = IF ~piezo /\ state \in {"MONITORING", "TRANSMITTING"}
             THEN (IF IsV2Sensor THEN "v2_analyze" ELSE "prod_enter")
             ELSE pc
    /\ UNCHANGED <<bootVars, state, trace, led, armed, vibVars, energyVars,
                   tallyVars, verdict, txType, ret, sent, samplerInvoked, gwVars,
                   heard, txBusy, elapsed>>
    /\ UNCHANGED <<dspVars, dashVars>>

\* the piezo line changes level.  ext0 is level-triggered: a halted device whose
\* armed line is high wakes before the line can change again.
PiezoChange ==
    /\ IsSensor
    /\ ~(pc = "asleep" /\ armed /\ piezo)
    /\ piezo' = ~piezo
    /\ triggerPending' = (triggerPending \/ (~piezo /\ pc \in {"arm", "sleep_start"}))
    /\ UNCHANGED <<bootVars, pc, state, trace, led, armed, vibVars, energyVars,
                   tallyVars, verdict, txType, ret, sent, samplerInvoked, gwVars>>
    /\ UNCHANGED <<heard, txBusy, elapsed>>
    /\ UNCHANGED <<dspVars, dashVars>>

---------------------------------------------------------------------------
(* gateway loop(), V2 with IS_GATEWAY and the production gateway *)

\* a frame arrives at the listening transceiver
RadioArrive ==
    /\ pc = "gw_loop"
    /\ rx = NoPacket
    /\ Len(heard) < MaxSerial
    /\ \E f \in IncomingFrames :
        /\ rx' = f
        /\ heard' = Append(heard, f)
    /\ UNCHANGED <<bootVars, pc, state, trace, led, armed, piezo, vibVars,
                   energyVars, tallyVars, verdict, txType, ret, sent,
                   samplerInvoked, serial>>
    /\ UNCHANGED <<txBusy, elapsed, triggerPending>>
    /\ UNCHANGED <<dspVars, dashVars>>

\* mutant: the packet size is not tested
gateway_loop_forwardsEmpty ==
    /\ pc = "gw_loop"
    /\ rx # NoPacket
    /\ serial' = Append(serial, SerialLine(ReadAll(rx)))
    /\ rx' = NoPacket
    /\ UNCHANGED <<bootVars, pc, state, trace, led, armed, piezo, vibVars,
                   energyVars, tallyVars, verdict, txType, ret, sent,
                   samplerInvoked, heard, txBusy, elapsed, triggerPending>>
    /\ UNCHANGED <<dspVars, dashVars>>

\* packetSize = LoRa.parsePacket(); if (packetSize) { read it all;
\* Serial.print("DATA:"); Serial.println(incoming); blink }
\* parsePacket() returns the payload length: 0 for an empty packet.
gateway_loop ==
    /\ pc = "gw_loop"
    /\ rx # NoPacket
    /\ serial' = IF Len(rx) > 0
                 THEN Append(serial, SerialLine(ReadAll(rx)))
                 ELSE serial
    /\ rx' = NoPacket
    /\ UNCHANGED <<bootVars, pc, state, trace, led, armed, piezo, vibVars,
                   energyVars, tallyVars, verdict, txType, ret, sent,
                   samplerInvoked>>
    /\ UNCHANGED <<heard, txBusy, elapsed, triggerPending>>
    /\ UNCHANGED <<dspVars, dashVars>>

---------------------------------------------------------------------------
Next ==
    \/ setup_LoRaBegin
    \/ V2_setup_CheckWakeup
    \/ Prod_setup_CheckWakeup
    \/ analyze_environment_enter
    \/ analyze_environment_vibRead
    \/ analyze_environment_vibDecide
    \/ analyze_environment_audio
    \/ analyze_environment_ledOff
    \/ send_lora_alert
    \/ run_ai_analysis_enter
    \/ run_ai_analysis_window
    \/ run_ai_analysis_timeUp
    \/ run_ai_analysis_verdict
    \/ send_packet
    \/ radio_TxDone
    \/ endPacket_return
    \/ DurationElapses
    \/ go_to_sleep_arm
    \/ go_to_sleep_start
    \/ Wake
    \/ PiezoChange
    \/ RadioArrive
    \/ gateway_loop

Spec == Init /\ [][Next]_vars

---------------------------------------------------------------------------
(* The verdict function on its own: every final tally up to MaxTally *)

InitVote ==
    /\ variant = "PROD_SENSOR"
    /\ pc = "prod_verdict"
    /\ state = "MONITORING"
    /\ trace = <<"BOOTING", "MONITORING">>
    /\ wakeCause = "EXT0"
    /\ radioOk = TRUE
    /\ led = FALSE
    /\ armed = FALSE
    /\ piezo = FALSE
    /\ vibrationTriggered = FALSE
    /\ i = 0
    /\ hits = 0
    /\ engine_energy = 0
    /\ nature_energy = 0
    /\ total_samples \in 1..MaxTally
    /\ chainsaw_votes \in 0..total_samples
    /\ wind_votes = 0
    /\ verdict = "NONE"
    /\ txType = "NONE"
    /\ ret = "none"
    /\ sent = <<>>
    /\ samplerInvoked = TRUE
    /\ rx = NoPacket
    /\ serial = <<>>
    /\ heard = <<>>
    /\ txBusy = FALSE
    /\ elapsed = TRUE
    /\ triggerPending = FALSE
    /\ DspIdle
    /\ DashIdle

NextVote == run_ai_analysis_verdict

SpecVote == InitVote /\ [][NextVote]_vars

---------------------------------------------------------------------------
(* Claims *)

BTD == <<"BOOTING", "TRANSMITTING", "DORMANT">>
BMTD == <<"BOOTING", "MONITORING", "TRANSMITTING", "DORMANT">>

\* C1 as stated: in each sensor variant a cold boot (wake cause not EXT0, radio
\* up) that has reached DORMANT went BOOTING -> TRANSMITTING -> DORMANT and
\* transmitted exactly one HEARTBEAT frame.
C1_Original ==
    (IsSensor /\ wakeCause = "POWERON" /\ state = "DORMANT") =>
        /\ trace = BTD
        /\ Len(sent) = 1
        /\ FrameType(sent[1]) = "HEARTBEAT"

\* C1 amended: a cold boot never enters MONITORING (no vibration read, no audio
\* window, no verdict) in either sensor variant; the production sensor goes
\* BOOTING -> TRANSMITTING -> DORMANT with exactly one HEARTBEAT frame, the V2
\* sensor goes BOOTING -> DORMANT and transmits nothing.
C1_ColdBoot ==
    /\ (IsSensor /\ wakeCause = "POWERON") =>
          /\ state # "MONITORING"
          /\ ~samplerInvoked
          /\ i = 0
          /\ verdict = "NONE"
    /\ (IsProdSensor /\ wakeCause = "POWERON" /\ state = "DORMANT") =>
          /\ trace = BTD
          /\ Len(sent) = 1
          /\ FrameType(sent[1]) = "HEARTBEAT"
    /\ (IsV2Sensor /\ wakeCause = "POWERON" /\ state = "DORMANT") =>
          /\ trace = <<"BOOTING", "DORMANT">>
          /\ sent = <<>>

C1_Witness ==
    /\ IsProdSensor
    /\ wakeCause = "POWERON"
    /\ state = "DORMANT"
    /\ Len(sent) = 1

\* C2: the only way out of DORMANT is an external wake into BOOTING; an
\* externally woken boot leaves BOOTING only into MONITORING; MONITORING with a
\* non-SAFE verdict is left only into TRANSMITTING, and TRANSMITTING only into
\* DORMANT: the states entered are exactly BOOTING, MONITORING, TRANSMITTING,
\* DORMANT.
C2_WakeEpisode ==
    /\ [](state = "MONITORING" =>
            wakeCause = "EXT0" /\ trace = <<"BOOTING", "MONITORING">>)
    /\ []((state = "DORMANT" /\ wakeCause = "EXT0" /\ verdict # "SAFE") =>
            trace = BMTD)
    /\ [][(state = "DORMANT" /\ state' # "DORMANT") =>
            (state' = "BOOTING" /\ wakeCause' = "EXT0")]_vars
    /\ [][(state = "BOOTING" /\ wakeCause = "EXT0" /\ state' # "BOOTING") =>
            state' = "MONITORING"]_vars
    /\ [][(state = "MONITORING" /\ state' # "MONITORING"
              /\ verdict' \notin {"NONE", "SAFE"}) =>
            state' = "TRANSMITTING"]_vars
    /\ [][(state = "TRANSMITTING" /\ wakeCause = "EXT0" /\ state' # "TRANSMITTING") =>
            state' = "DORMANT"]_vars

C2_Witness ==
    /\ state = "DORMANT"
    /\ wakeCause = "EXT0"
    /\ verdict = "CHAINSAW"
    /\ trace = BMTD

C4_AtMostOneFrame == Len(sent) <= 1

C4_Witness ==
    /\ state = "DORMANT"
    /\ wakeCause = "EXT0"
    /\ samplerInvoked
    /\ Len(sent) = 1

\* C5: once the verdict is CHAINSAW or CLIMBING its send is pending or done,
\* and at DORMANT exactly one frame, carrying that verdict, has been sent; a
\* final tally of 5 positive windows out of 30 gives CHAINSAW.
C5_ThreatSentOnce ==
    /\ verdict \in {"CHAINSAW", "CLIMBING"} =>
          \/ (pc = "send" /\ txType = verdict /\ sent = <<>>)
          \/ (Len(sent) = 1 /\ FrameType(sent[1]) = verdict)
    /\ (state = "DORMANT" /\ verdict \in {"CHAINSAW", "CLIMBING"}) =>
          (Len(sent) = 1 /\ FrameType(sent[1]) = verdict)
    /\ (IsProdSensor /\ pc \in {"send", "tx_wait"}
          /\ chainsaw_votes = 5 /\ total_samples = 30) =>
          verdict = "CHAINSAW"

C5_Witness ==
    /\ IsProdSensor
    /\ chainsaw_votes = 5
    /\ total_samples = 30
    /\ Len(sent) = 1
    /\ FrameType(sent[1]) = "CHAINSAW"

\* C6: in the V2 sensor, more than 5 active reads out of 100 give CLIMBING,
\* the audio sampler does not run in that episode, and the device is in the
\* sleep entry right after the CLIMBING frame.
C6_VibrationShortCircuit ==
    /\ (IsV2Sensor /\ i = VIB_READS /\ hits > 5 /\ pc # "v2_vib") =>
          /\ verdict = "CLIMBING"
          /\ ~samplerInvoked
          /\ pc \in {"send", "tx_wait", "arm", "sleep_start", "asleep"}
    /\ verdict = "CLIMBING" => (hits > 5 /\ ~samplerInvoked)
    /\ (state = "DORMANT" /\ verdict = "CLIMBING") =>
          (trace = BMTD /\ sent = <<V2Frame("CLIMBING")>>)

C6_Witness ==
    /\ state = "DORMANT"
    /\ hits = 6
    /\ verdict = "CLIMBING"
    /\ ~samplerInvoked

\* C7 as stated: the audio analysis runs only after a completed vibration
\* window of 100 reads with at most 5 active.
C7_Original ==
    (IsSensor /\ samplerInvoked) => (i = VIB_READS /\ hits <= 5)

\* C7 amended: in the V2 sensor the acoustic path is entered exactly when the
\* 100-read vibration window has been decided with at most 5 active reads; the
\* production sensor makes no vibration read and every externally woken
\* episode of it runs the acoustic path.
C7_AcousticEntry ==
    /\ IsV2Sensor =>
          ((pc = "v2_audio" \/ samplerInvoked)
              <=> (i = VIB_READS /\ hits <= 5 /\ pc # "v2_vib"))
    /\ IsProdSensor =>
          /\ i = 0
          /\ hits = 0
          /\ (wakeCause = "EXT0" /\ state \in {"TRANSMITTING", "DORMANT"})
                => samplerInvoked

C7_Witness ==
    /\ IsV2Sensor
    /\ samplerInvoked
    /\ hits = 5

\* C8: the verdict decided from a final tally is CHAINSAW exactly when
\* positive_votes / total_windows > 15%; 16 of 100 is CHAINSAW, 14 and 15 of
\* 100 are not.
C8_FifteenPercent ==
    pc # "prod_verdict" =>
        /\ verdict \in {"CHAINSAW", "TREE_FALL"}
        /\ (verdict = "CHAINSAW") <=> (100 * chainsaw_votes > 15 * total_samples)
        /\ (total_samples = 100 /\ chainsaw_votes = 16) => verdict = "CHAINSAW"
        /\ (total_samples = 100 /\ chainsaw_votes \in {14, 15}) => verdict # "CHAINSAW"

C8_Witness ==
    /\ pc = "send"
    /\ total_samples = 100
    /\ chainsaw_votes = 15
    /\ verdict = "TREE_FALL"

\* C9 as stated: in both variants a window is positive exactly when
\* engine > 50000 and engine > 2 * nature.
C9_Original ==
    [][/\ (pc = "prod_loop" /\ total_samples' = total_samples + 1) =>
            (chainsaw_votes' - chainsaw_votes =
                IF engine_energy' > 50000 /\ engine_energy' > 2 * nature_energy'
                THEN 1 ELSE 0)
       /\ (pc = "v2_audio" /\ pc' # "v2_audio") =>
            ((verdict' = "CHAINSAW") <=>
                (engine_energy' > 50000 /\ engine_energy' > 2 * nature_energy'))
      ]_vars

\* C9 amended: a production-sensor window casts exactly one positive vote when
\* engine > 50000 and engine > 2 * nature, and none otherwise; the V2 window is
\* positive exactly when engine > 50000 and engine / (nature + 1) > 2, so the
\* variants differ when 2 * nature < engine <= 2 * nature + 2.
C9_VoteRule ==
    [][/\ (pc = "prod_loop" /\ total_samples' = total_samples + 1) =>
            (chainsaw_votes' - chainsaw_votes =
                IF engine_energy' > 50000 /\ engine_energy' > 2 * nature_energy'
                THEN 1 ELSE 0)
       /\ (pc = "v2_audio" /\ pc' # "v2_audio") =>
            ((verdict' = "CHAINSAW") <=>
                (engine_energy' > 50000 /\ engine_energy' > 2 * (nature_energy' + 1)))
      ]_vars

C9_Witness ==
    /\ IsV2Sensor
    /\ engine_energy = 100001
    /\ nature_energy = 50000
    /\ verdict = "SAFE"

\* C10: after a failed LoRa.begin() the device stays halted in BOOTING: no
\* frame sent, no MONITORING, no deep sleep, nothing forwarded.
C10_RadioFailureHalts ==
    /\ []((pc # "boot" /\ ~radioOk) =>
            /\ pc = "halt"
            /\ trace = <<"BOOTING">>
            /\ state = "BOOTING"
            /\ sent = <<>>
            /\ serial = <<>>
            /\ ~samplerInvoked
            /\ ~armed)
    /\ [][pc = "halt" =>
            (pc' = "halt" /\ ~radioOk' /\ UNCHANGED <<state, sent, serial, rx, armed>>)]_vars

C10_Witness ==
    /\ pc = "halt"
    /\ wakeCause = "EXT0"
    /\ ~radioOk

\* C11: a sensor is never halted in deep sleep (DORMANT) with the external wake
\* source not armed, whichever path led to the sleep entry.
C11_ArmedBeforeHalt ==
    (pc = "asleep" \/ state = "DORMANT") => armed

\* halted after a vibration short-circuit episode, wake source armed
C11_Witness ==
    /\ pc = "asleep"
    /\ state = "DORMANT"
    /\ armed
    /\ wakeCause = "EXT0"
    /\ verdict = "CLIMBING"

\* C12 as stated: a wake trigger raised during the sleep-entry sequence (from
\* arming the wake line to halting the processor) is not lost: when the
\* processor is halted the trigger is still asserted on the armed line, so that
\* it wakes the device.
C12_Original ==
    (pc = "asleep" /\ triggerPending) => (armed /\ piezo)

\* C13 as stated: in a sensor the indicator is on while the episode samples
\* (MONITORING) and is off in every state reached after leaving MONITORING,
\* TRANSMITTING and DORMANT, on every path.
C13_Original ==
    IsSensor =>
        /\ (pc \in {"v2_vib", "v2_audio", "prod_loop"} => led)
        /\ (state \in {"TRANSMITTING", "DORMANT"} => ~led)

FrameTags == {"HEARTBEAT", "CHAINSAW", "CLIMBING", "TREE_FALL"}

\* C14 as stated: every frame a sensor transmits, in every variant, has the
\* node identity, the verdict tag, the battery reading and a timestamp as
\* delimited fields.
C14_Original ==
    IsSensor =>
        \A k \in 1..Len(sent) :
            /\ Len(sent[k]) = 4
            /\ sent[k][1] = "MILLIS"
            /\ sent[k][2] = NODE_ID
            /\ sent[k][3] \in FrameTags
            /\ sent[k][4] \in {BatteryField(raw) : raw \in BatReadings}

\* C14 amended: every frame of the production sensor has the four fields
\* timestamp, node identity, verdict tag, battery reading (volts, one decimal,
\* suffix V); every frame of the V2 sensor has exactly the two fields node
\* identity and verdict tag, with no battery reading and no timestamp.
C14_FrameFields ==
    /\ IsProdSensor =>
          \A k \in 1..Len(sent) :
              /\ Len(sent[k]) = 4
              /\ sent[k][1] = "MILLIS"
              /\ sent[k][2] = NODE_ID
              /\ sent[k][3] \in FrameTags
              /\ sent[k][4] \in {"0.0V", "3.7V", "6.6V"}
    /\ IsV2Sensor =>
          \A k \in 1..Len(sent) :
              /\ Len(sent[k]) = 2
              /\ sent[k][1] = NODE_ID
              /\ sent[k][2] \in FrameTags

\* a production frame with a mid-range battery reading has gone out
C14_Witness ==
    /\ IsProdSensor
    /\ Len(sent) = 1
    /\ sent[1] = <<"MILLIS", "NODE_A", "TREE_FALL", "3.7V">>

\* C15: the verdict tag of every frame handed to the radio, and of the frame
\* about to be sent, is one of HEARTBEAT, CHAINSAW, CLIMBING, TREE_FALL; no
\* frame carries SAFE or any other tag.
C15_TagVocabulary ==
    IsSensor =>
        /\ \A k \in 1..Len(sent) : FrameType(sent[k]) \in FrameTags
        /\ pc \in {"send", "tx_wait"} => txType \in FrameTags

\* a V2 episode has handed its CLIMBING frame to the radio
C15_Witness ==
    /\ IsV2Sensor
    /\ pc = "tx_wait"
    /\ Len(sent) = 1
    /\ FrameType(sent[1]) = "CLIMBING"

\* frames the gateway loop has already taken from the transceiver, in order
Handled == IF rx = NoPacket THEN heard ELSE SubSeq(heard, 1, Len(heard) - 1)
NonEmptyHandled == SelectSeq(Handled, LAMBDA f : Len(f) > 0)

\* C16 as stated: the relay forwards every frame it receives exactly once,
\* verbatim, prefixed DATA:, in the order received, and writes no other line.
C16_Original ==
    IsGateway =>
        /\ Len(serial) = Len(Handled)
        /\ \A k \in 1..Len(serial) :
              serial[k] = [marker |-> "DATA:", frame |-> Handled[k]]

\* C16 amended: the relay forwards every non-empty frame it receives exactly
\* once, verbatim, prefixed DATA:, in the order received; a frame with an empty
\* payload is dropped; no DATA: line is written without a received frame.
C16_ForwardNonEmpty ==
    IsGateway =>
        /\ Len(serial) = Len(NonEmptyHandled)
        /\ \A k \in 1..Len(serial) :
              serial[k] = [marker |-> "DATA:", frame |-> NonEmptyHandled[k]]

\* three frames received and handled, the second one empty: two lines written
C16_Witness ==
    /\ IsGateway
    /\ rx = NoPacket
    /\ heard = << <<"NODE_A", "CHAINSAW">>, <<>>,
                  <<"MILLIS", "NODE_A", "HEARTBEAT", "3.7V">> >>
    /\ Len(serial) = 2

---------------------------------------------------------------------------
(* The same program with its scheduling: the processor keeps executing the
   firmware, the millisecond clock keeps advancing, and the transceiver
   finishes a packet it was given.  The piezo line, incoming radio frames and
   the wake-up are left to the environment. *)

FirmwareStep ==
    \/ setup_LoRaBegin
    \/ V2_setup_CheckWakeup
    \/ Prod_setup_CheckWakeup
    \/ analyze_environment_enter
    \/ analyze_environment_vibRead
    \/ analyze_environment_vibDecide
    \/ analyze_environment_audio
    \/ analyze_environment_ledOff
    \/ send_lora_alert
    \/ run_ai_analysis_enter
    \/ run_ai_analysis_window
    \/ run_ai_analysis_timeUp
    \/ run_ai_analysis_verdict
    \/ send_packet
    \/ endPacket_return
    \/ go_to_sleep_arm
    \/ go_to_sleep_start
    \/ gateway_loop

SpecFair ==
    /\ Init
    /\ [][Next]_vars
    /\ WF_vars(FirmwareStep)
    /\ WF_vars(DurationElapses)
    /\ WF_vars(radio_TxDone)

\* C17: every boot cycle of a sensor whose radio has initialised eventually
\* reaches DORMANT: the episode runs to the end of its duration or
\* short-circuits, and no state of the cycle blocks forever.
C17_ReachesDormant ==
    (IsSensor /\ pc = "check_wake") ~> (state = "DORMANT")

\* a production episode that ran all its windows has reached DORMANT
C17_Witness ==
    /\ IsProdSensor
    /\ state = "DORMANT"
    /\ trace = BMTD
    /\ verdict = "TREE_FALL"

\* C18: while the transceiver is still transmitting a frame the sensor is in
\* TRANSMITTING, waiting in the send function: it has entered no other state
\* and has not started the sleep entry; deep sleep is entered only with the
\* transmission complete.
C18_WaitsForSend ==
    IsSensor =>
        /\ txBusy => (state = "TRANSMITTING" /\ pc = "tx_wait")
        /\ pc \in {"v2_led_off", "arm", "sleep_start", "asleep"} => ~txBusy

\* a heartbeat went out completely and the device then went to sleep
C18_Witness ==
    /\ IsProdSensor
    /\ state = "DORMANT"
    /\ Len(sent) = 1
    /\ FrameType(sent[1]) = "HEARTBEAT"
    /\ ~txBusy

AcousticVerdicts == {"CHAINSAW", "TREE_FALL", "SAFE"}

\* C19 as stated: in each sensor variant an acoustic verdict exists only once
\* the fixed monitoring duration has elapsed; none is decided from a single
\* window or before the duration ends.
C19_Original ==
    (IsSensor /\ verdict \in AcousticVerdicts) => elapsed

\* C19 amended: the production sensor runs the analysis window repeatedly until
\* the monitoring duration has elapsed, each window counting once in the tally
\* and adding at most one vote, and decides its verdict only after the duration
\* has elapsed; the V2 sensor analyses exactly one window, keeps no tally and
\* decides its acoustic verdict from that window alone.
C19_WindowVoting ==
    /\ []((IsProdSensor /\ (verdict \in AcousticVerdicts \/ pc = "prod_verdict")) =>
            (elapsed /\ samplerInvoked))
    /\ []((IsProdSensor /\ pc \in {"prod_verdict", "send", "tx_wait"}
              /\ wakeCause = "EXT0") => total_samples >= 1)
    /\ []((IsProdSensor /\ pc = "prod_loop" /\ ~elapsed) => verdict = "NONE")
    /\ [][(IsProdSensor /\ samplerInvoked' /\ <<engine_energy, nature_energy, total_samples>>
               # <<engine_energy', nature_energy', total_samples'>> /\ pc' = "prod_loop") =>
            /\ ~elapsed
            /\ total_samples' = total_samples + 1
            /\ chainsaw_votes' + wind_votes' \in
                  {chainsaw_votes + wind_votes, chainsaw_votes + wind_votes + 1}]_vars
    /\ []((IsV2Sensor /\ verdict \in AcousticVerdicts) =>
            (samplerInvoked /\ ~elapsed /\ total_samples = 0))
    /\ [][(IsV2Sensor /\ ~samplerInvoked /\ samplerInvoked') =>
            (verdict = "NONE" /\ verdict' \in {"CHAINSAW", "SAFE"})]_vars
    /\ [][(IsV2Sensor /\ samplerInvoked /\ samplerInvoked') =>
            UNCHANGED <<engine_energy, nature_energy, verdict>>]_vars

\* a production episode decided after its duration elapsed, with 7 windows
C19_Witness ==
    /\ IsProdSensor
    /\ pc = "send"
    /\ elapsed
    /\ total_samples = 7
    /\ chainsaw_votes = 2
    /\ verdict = "CHAINSAW"

\* C20: when the first window of a production sensor episode begins all three
\* counters of the tally are 0, and no counter holds a value while the device
\* sleeps, wakes and boots: nothing of a tally survives a sleep cycle.
C20_TallyReset ==
    /\ (IsProdSensor /\ pc = "prod_loop" /\ ~samplerInvoked) =>
          (chainsaw_votes = 0 /\ wind_votes = 0 /\ total_samples = 0)
    /\ (IsSensor /\ pc \in {"arm", "sleep_start", "asleep", "boot", "check_wake",
                            "prod_enter"}) =>
          (chainsaw_votes = 0 /\ wind_votes = 0 /\ total_samples = 0)

\* an externally woken episode is about to run its first window
C20_Witness ==
    /\ IsProdSensor
    /\ wakeCause = "EXT0"
    /\ pc = "prod_loop"
    /\ ~samplerInvoked
    /\ total_samples = 0
    /\ chainsaw_votes = 0

\* everything the firmware computes a verdict and a transmission from
CoreState ==
    <<radioOk, led, armed, vibrationTriggered, i, hits, engine_energy,
      nature_energy, chainsaw_votes, wind_votes, total_samples, verdict, txType,
      ret, sent, samplerInvoked, txBusy, elapsed>>

\* CoreState of a device that has just been powered on
FreshCore ==
    <<FALSE, FALSE, FALSE, FALSE, 0, 0, 0, 0, 0, 0, 0, "NONE", "NONE", "none",
      <<>>, FALSE, FALSE, FALSE>>

\* C21: every boot cycle of a sensor starts from the same core state, that of a
\* fresh power-on, whatever earlier cycles did: the wake cause and the readings
\* of the cycle are all that its verdict and its transmission depend on.
C21_StatelessAcrossCycles ==
    /\ [](IsSensor /\ pc = "boot" => CoreState = FreshCore /\ state = "BOOTING")
    /\ [][(pc = "asleep" /\ pc' # "asleep") =>
            (pc' = "boot" /\ wakeCause' = "EXT0" /\ CoreState' = FreshCore)]_vars

\* a cycle begun by the wake line, after an earlier cycle ended in sleep
C21_Witness ==
    /\ IsV2Sensor
    /\ pc = "boot"
    /\ wakeCause = "EXT0"
    /\ CoreState = FreshCore

\* the orders in which a boot cycle can enter the power states
CycleTraces ==
    { BMTD, BTD, <<"BOOTING", "DORMANT">>, <<"BOOTING", "MONITORING", "DORMANT">> }
IsPrefix(s, t) == Len(s) <= Len(t) /\ s = SubSeq(t, 1, Len(s))

\* C22: a sensor runs at most one episode per boot cycle: each power state is
\* entered at most once, in order; a change of the piezo line while the device
\* is awake moves the firmware nowhere and touches nothing of the episode; the
\* wake cause is read only in BOOTING and changes only when the device wakes
\* from sleep.
C22_OneEpisode ==
    /\ [](IsSensor => \E t \in CycleTraces : IsPrefix(trace, t))
    /\ [](IsSensor /\ pc = "check_wake" => state = "BOOTING")
    /\ [][(piezo' # piezo /\ pc # "asleep") =>
            UNCHANGED <<pc, state, trace, wakeCause, verdict, sent, txType,
                        chainsaw_votes, wind_votes, total_samples, hits, i,
                        samplerInvoked, led, armed>>]_vars
    /\ [][wakeCause' # wakeCause => (pc = "asleep" /\ pc' = "boot")]_vars

\* the line is high in the middle of a production episode, which goes on
C22_Witness ==
    /\ IsProdSensor
    /\ pc = "prod_loop"
    /\ trace = <<"BOOTING", "MONITORING">>
    /\ total_samples = 3
    /\ piezo

EpisodeVerdicts == {"CHAINSAW", "CLIMBING", "TREE_FALL", "SAFE"}

\* C25: a sensor that was woken by the wake line and has started its sleep
\* entry holds a verdict, one of CHAINSAW, CLIMBING, TREE_FALL, SAFE, whatever
\* the vibration reads and band energies were; once decided, the verdict of an
\* episode is not decided again.
C25_OneVerdict ==
    /\ []((IsSensor /\ wakeCause = "EXT0" /\ pc \in {"arm", "sleep_start", "asleep"}) =>
            verdict \in EpisodeVerdicts)
    /\ [](IsSensor => verdict \in EpisodeVerdicts \cup {"NONE"})
    /\ [][(verdict # "NONE" /\ verdict' # verdict) =>
            (pc = "asleep" /\ verdict' = "NONE")]_vars

\* a V2 episode that found nothing is asleep again with the verdict SAFE
C25_Witness ==
    /\ IsV2Sensor
    /\ wakeCause = "EXT0"
    /\ state = "DORMANT"
    /\ verdict = "SAFE"
    /\ hits = 5

\* C26: a gateway only boots and runs the receive loop: it never arms the wake
\* line, never starts the sleep entry, never reaches the wake-cause check,
\* never samples or classifies and never transmits; a sensor never runs the
\* receive loop and writes no DATA: line.
C26_RoleSeparation ==
    /\ IsGateway =>
          /\ pc \in {"boot", "halt", "gw_loop"}
          /\ state = "BOOTING"
          /\ trace = <<"BOOTING">>
          /\ ~armed
          /\ ~samplerInvoked
          /\ i = 0
          /\ verdict = "NONE"
          /\ sent = <<>>
    /\ IsSensor =>
          /\ pc # "gw_loop"
          /\ rx = NoPacket
          /\ heard = <<>>
          /\ serial = <<>>

\* a gateway that has forwarded two frames
C26_Witness ==
    /\ IsGateway
    /\ pc = "gw_loop"
    /\ Len(serial) = 2
    /\ wakeCause = "POWERON"
    /\ ~armed

\* C27: a HEARTBEAT frame is sent, or about to be sent, only in a boot cycle
\* whose wake cause is not the wake line; a cycle woken by the wake line sends no
\* HEARTBEAT and its verdict, once decided, is CHAINSAW, CLIMBING, TREE_FALL
\* or SAFE.
C27_HeartbeatOnlyOnColdBoot ==
    IsSensor =>
        /\ \A k \in 1..Len(sent) :
              FrameType(sent[k]) = "HEARTBEAT" => wakeCause = "POWERON"
        /\ txType = "HEARTBEAT" => wakeCause = "POWERON"
        /\ wakeCause = "EXT0" =>
              /\ verdict \in EpisodeVerdicts \cup {"NONE"}
              /\ \A k \in 1..Len(sent) : FrameType(sent[k]) = verdict

\* an externally woken production episode sent TREE_FALL, not a heartbeat
C27_Witness ==
    /\ IsProdSensor
    /\ wakeCause = "EXT0"
    /\ pc = "arm"
    /\ Len(sent) = 1
    /\ FrameType(sent[1]) = "TREE_FALL"

\* C30: in the production sensor the tally always satisfies
\* 0 <= chainsaw_votes, 0 <= wind_votes and
\* chainsaw_votes + wind_votes <= total_samples; a window adds exactly one to
\* total_samples and one to at most one of the two vote counters.
C30_TallyBounds ==
    /\ [](/\ chainsaw_votes >= 0
          /\ wind_votes >= 0
          /\ chainsaw_votes + wind_votes <= total_samples)
    /\ [][(pc = "prod_loop" /\ pc' = "prod_loop" /\ total_samples' # total_samples) =>
            /\ total_samples' = total_samples + 1
            /\ \/ (chainsaw_votes' = chainsaw_votes + 1 /\ wind_votes' = wind_votes)
               \/ (chainsaw_votes' = chainsaw_votes /\ wind_votes' = wind_votes + 1)
               \/ (chainsaw_votes' = chainsaw_votes /\ wind_votes' = wind_votes)]_vars
    /\ [][(<<chainsaw_votes, wind_votes>> # <<chainsaw_votes', wind_votes'>>) =>
            (total_samples' # total_samples)]_vars

\* a tally with chainsaw votes, wind votes and windows that voted for neither
C30_Witness ==
    /\ pc = "prod_loop"
    /\ chainsaw_votes = 2
    /\ wind_votes = 3
    /\ total_samples = 7

---------------------------------------------------------------------------
(* Energy band analysis on its own: the two band-sum loops over the magnitude
   spectrum of one window, for a spectrum whose energy sits in one bin *)

SAMPLES == 512
SAMPLING_FREQ == 6000
LOW_START == 8
LOW_END == 51
HIGH_START == 170
HIGH_END == 256
\* the low band as documented: 100 Hz to 600 Hz
BAND_LOW_HZ == 100
BAND_HIGH_HZ == 600

\* magnitude of the bin that holds the energy
ToneMag == 60000
\* bins around every loop boundary
Tones == {7, 8, 9, 50, 51, 52, 169, 170, 255, 256}

\* vReal[k] after FFT.complexToMagnitude()
BinMagnitude(k) == IF k = tone THEN ToneMag ELSE 0

\* bin that holds frequency hz: bin width is SAMPLING_FREQ / SAMPLES
BinOf(hz) == (hz * SAMPLES) \div SAMPLING_FREQ

\* mutant: the high band runs up to and including bin SAMPLES/2
HighEnd_inclusive == HIGH_END + 1

\* upper limit of the second loop: 256 in the production sensor, SAMPLES/2 in V2
HighEnd == IF IsV2Sensor THEN SAMPLES \div 2 ELSE HIGH_END

bandFrame ==
    <<variant, state, trace, wakeCause, radioOk, led, armed, piezo, vibVars,
      tallyVars, verdict, txType, ret, sent, samplerInvoked, gwVars, heard,
      txBusy, elapsed, triggerPending, vReal, vImag, si, taken, win, tone,
      dashVars>>

\* double engine_energy = 0; double nature_energy = 0; first loop at i = 8
InitBands ==
    /\ variant \in {"V2_SENSOR", "PROD_SENSOR"}
    /\ DashIdle
    /\ pc = "b_low"
    /\ state = "MONITORING"
    /\ trace = <<"BOOTING", "MONITORING">>
    /\ wakeCause = "EXT0"
    /\ radioOk = TRUE
    /\ led = TRUE
    /\ armed = FALSE
    /\ piezo = FALSE
    /\ vibrationTriggered = IsV2Sensor
    /\ i = IF IsV2Sensor THEN VIB_READS ELSE 0
    /\ hits = 0
    /\ engine_energy = 0
    /\ nature_energy = 0
    /\ chainsaw_votes = 0
    /\ wind_votes = 0
    /\ total_samples = 0
    /\ verdict = "NONE"
    /\ txType = "NONE"
    /\ ret = "none"
    /\ sent = <<>>
    /\ samplerInvoked = TRUE
    /\ rx = NoPacket
    /\ serial = <<>>
    /\ heard = <<>>
    /\ txBusy = FALSE
    /\ elapsed = FALSE
    /\ triggerPending = FALSE
    /\ vReal = <<>>
    /\ vImag = <<>>
    /\ si = 0
    /\ taken = <<>>
    /\ win = 0
    /\ tone \in Tones
    /\ bin = LOW_START
    /\ lowSummed = {}
    /\ highSummed = {}

\* for (int i = 8; i < 51; i++) engine_energy += vReal[i];
bands_lowLoop ==
    /\ pc = "b_low"
    /\ bin < LOW_END
    /\ engine_energy' = engine_energy + BinMagnitude(bin)
    /\ lowSummed' = lowSummed \cup {bin}
    /\ bin' = bin + 1
    /\ UNCHANGED <<bandFrame, pc, nature_energy, highSummed>>

\* the first loop ends; the second starts at i = 170
bands_lowExit ==
    /\ pc = "b_low"
    /\ ~(bin < LOW_END)
    /\ bin' = HIGH_START
    /\ pc' = "b_high"
    /\ UNCHANGED <<bandFrame, energyVars, lowSummed, highSummed>>

\* for (int i = 170; i < 256; i++) nature_energy += vReal[i];
bands_highLoop ==
    /\ pc = "b_high"
    /\ bin < HighEnd
    /\ nature_energy' = nature_energy + BinMagnitude(bin)
    /\ highSummed' = highSummed \cup {bin}
    /\ bin' = bin + 1
    /\ UNCHANGED <<bandFrame, pc, engine_energy, lowSummed>>

\* the second loop ends: the EnergyProfile is complete
bands_highExit ==
    /\ pc = "b_high"
    /\ ~(bin < HighEnd)
    /\ pc' = "b_done"
    /\ UNCHANGED <<bandFrame, energyVars, bin, lowSummed, highSummed>>

NextBands ==
    \/ bands_lowLoop
    \/ bands_lowExit
    \/ bands_highLoop
    \/ bands_highExit

SpecBands == InitBands /\ [][NextBands]_vars

\* C23 as stated: with F = 6000 and N = 512 the bins summed into the low band
\* are those from the bin of 100 Hz to the bin of 600 Hz, 8 through 51
\* inclusive, as the code documents.
C23_Original ==
    pc = "b_done" => lowSummed = BinOf(BAND_LOW_HZ)..BinOf(BAND_HIGH_HZ)

---------------------------------------------------------------------------
(* One analysis window at sample level: the sampling loop and the in-place
   transform on vReal / vImag.  The buffer length is scaled from SAMPLES to
   WINDOW = 4, the largest length whose forward transform and Hamming weights
   (0.08, 0.77, 0.77, 0.08) are exact in integer arithmetic; magnitudes are
   rounded down to integers. *)

WINDOW == 4
\* analysis windows followed in one episode
WindowsFollowed == 2
\* analogRead(MIC_PIN)
MicReadings == {0, 1000}

Idx == 0..(WINDOW - 1)
ZeroBuffer == [k \in Idx |-> 0]

\* Hamming weight of sample k, in hundredths: 0.54 - 0.46 cos(2 pi k / (WINDOW - 1))
HammingPct(k) == IF k \in {0, WINDOW - 1} THEN 8 ELSE 77
Windowed(v, k) == (v * HammingPct(k)) \div 100

\* forward transform of length 4 of x + iy: real and imaginary parts
DftRe(x, y) ==
    [k \in Idx |->
        CASE k = 0 -> x[0] + x[1] + x[2] + x[3]
          [] k = 1 -> x[0] + y[1] - x[2] - y[3]
          [] k = 2 -> x[0] - x[1] + x[2] - x[3]
          [] k = 3 -> x[0] - y[1] - x[2] + y[3]]
DftIm(x, y) ==
    [k \in Idx |->
        CASE k = 0 -> y[0] + y[1] + y[2] + y[3]
          [] k = 1 -> y[0] - x[1] - y[2] + x[3]
          [] k = 2 -> y[0] - y[1] + y[2] - y[3]
          [] k = 3 -> y[0] + x[1] - y[2] - x[3]]

\* largest r with r * r <= v
RECURSIVE SqrtBetween(_, _, _)
SqrtBetween(v, lo, hi) ==
    IF lo = hi THEN lo
    ELSE LET mid == (lo + hi + 1) \div 2
         IN  IF mid * mid <= v THEN SqrtBetween(v, mid, hi)
             ELSE SqrtBetween(v, lo, mid - 1)
ISqrt(v) == SqrtBetween(v, 0, 40000)
Magnitude(re, im) == ISqrt(re * re + im * im)

\* bins of the usable half-spectrum 0 .. WINDOW/2 - 1 summed into each band: as
\* in the program bin 0 belongs to neither band
WLowBins == {1}
WHighBins == {}
RECURSIVE SumOver(_, _)
SumOver(f, S) ==
    IF S = {} THEN 0
    ELSE LET k == CHOOSE k \in S : TRUE IN f[k] + SumOver(f, S \ {k})

windowFrame ==
    <<variant, state, trace, wakeCause, radioOk, led, armed, piezo, vibVars,
      tallyVars, verdict, txType, ret, sent, samplerInvoked, gwVars, heard,
      txBusy, elapsed, triggerPending, tone, bin, lowSummed, highSummed,
      dashVars>>

\* the globals vReal and vImag are zero after a reset; the sampling loop starts
InitWindow ==
    /\ variant \in {"V2_SENSOR", "PROD_SENSOR"}
    /\ DashIdle
    /\ pc = "w_sample"
    /\ state = "MONITORING"
    /\ trace = <<"BOOTING", "MONITORING">>
    /\ wakeCause = "EXT0"
    /\ radioOk = TRUE
    /\ led = TRUE
    /\ armed = FALSE
    /\ piezo = FALSE
    /\ vibrationTriggered = IsV2Sensor
    /\ i = IF IsV2Sensor THEN VIB_READS ELSE 0
    /\ hits = 0
    /\ engine_energy = 0
    /\ nature_energy = 0
    /\ chainsaw_votes = 0
    /\ wind_votes = 0
    /\ total_samples = 0
    /\ verdict = "NONE"
    /\ txType = "NONE"
    /\ ret = "none"
    /\ sent = <<>>
    /\ samplerInvoked = TRUE
    /\ rx = NoPacket
    /\ serial = <<>>
    /\ heard = <<>>
    /\ txBusy = FALSE
    /\ elapsed = FALSE
    /\ triggerPending = FALSE
    /\ vReal = ZeroBuffer
    /\ vImag = ZeroBuffer
    /\ si = 0
    /\ taken = <<>>
    /\ win = 0
    /\ tone = 0
    /\ bin = 0
    /\ lowSummed = {}
    /\ highSummed = {}

\* mutant: the imaginary part is not cleared
sample_read_keepsImag ==
    /\ pc = "w_sample"
    /\ si < WINDOW
    /\ \E r \in MicReadings :
        /\ vReal' = [vReal EXCEPT ![si] = r]
        /\ taken' = Append(taken, r)
    /\ si' = si + 1
    /\ UNCHANGED <<windowFrame, pc, energyVars, win, vImag>>

\* vReal[i] = analogRead(MIC_PIN); vImag[i] = 0; wait one sampling period; i++
sample_read ==
    /\ pc = "w_sample"
    /\ si < WINDOW
    /\ \E r \in MicReadings :
        /\ vReal' = [vReal EXCEPT ![si] = r]
        /\ taken' = Append(taken, r)
    /\ vImag' = [vImag EXCEPT ![si] = 0]
    /\ si' = si + 1
    /\ UNCHANGED <<windowFrame, pc, energyVars, win>>

\* the sampling loop ends
sample_done ==
    /\ pc = "w_sample"
    /\ ~(si < WINDOW)
    /\ pc' = "w_windowing"
    /\ UNCHANGED <<windowFrame, energyVars, vReal, vImag, si, taken, win>>

\* mutant: the window function is not applied
FFT_windowing_skipped ==
    /\ pc = "w_windowing"
    /\ pc' = "w_compute"
    /\ UNCHANGED <<windowFrame, energyVars, vReal, vImag, si, taken, win>>

\* FFT.windowing(FFT_WIN_TYP_HAMMING, FFT_FORWARD): vReal weighted in place
FFT_windowing ==
    /\ pc = "w_windowing"
    /\ vReal' = [k \in Idx |-> Windowed(vReal[k], k)]
    /\ pc' = "w_compute"
    /\ UNCHANGED <<windowFrame, energyVars, vImag, si, taken, win>>

\* FFT.compute(FFT_FORWARD): vReal and vImag replaced by the spectrum
FFT_compute ==
    /\ pc = "w_compute"
    /\ vReal' = DftRe(vReal, vImag)
    /\ vImag' = DftIm(vReal, vImag)
    /\ pc' = "w_magnitude"
    /\ UNCHANGED <<windowFrame, energyVars, si, taken, win>>

\* FFT.complexToMagnitude(): vReal replaced by the magnitudes, vImag left as is
FFT_complexToMagnitude ==
    /\ pc = "w_magnitude"
    /\ vReal' = [k \in Idx |-> Magnitude(vReal[k], vImag[k])]
    /\ pc' = "w_bands"
    /\ UNCHANGED <<windowFrame, energyVars, vImag, si, taken, win>>

\* engine_energy and nature_energy start at 0 and sum vReal over their bands
band_sums ==
    /\ pc = "w_bands"
    /\ engine_energy' = SumOver(vReal, WLowBins)
    /\ nature_energy' = SumOver(vReal, WHighBins)
    /\ win' = win + 1
    /\ pc' = "w_done"
    /\ UNCHANGED <<windowFrame, vReal, vImag, si, taken>>

\* production sensor: the while loop goes round, the sampling loop restarts
window_next ==
    /\ pc = "w_done"
    /\ IsProdSensor
    /\ win < WindowsFollowed
    /\ si' = 0
    /\ taken' = <<>>
    /\ pc' = "w_sample"
    /\ UNCHANGED <<windowFrame, energyVars, vReal, vImag, win>>

NextWindow ==
    \/ sample_read
    \/ sample_done
    \/ FFT_windowing
    \/ FFT_compute
    \/ FFT_complexToMagnitude
    \/ band_sums
    \/ window_next

SpecWindow == InitWindow /\ [][NextWindow]_vars

\* C29: while a window is acquired, entry k of the buffer holds the k-th
\* reading taken in that window for every k already read, with imaginary part
\* 0; when the transform starts exactly WINDOW readings have been taken and
\* the whole buffer is those readings in order, whatever it held before.
C29_AcquisitionOrder ==
    /\ pc = "w_sample" =>
          /\ Len(taken) = si
          /\ si <= WINDOW
          /\ \A k \in 0..(si - 1) : vReal[k] = taken[k + 1] /\ vImag[k] = 0
    /\ pc = "w_windowing" =>
          /\ Len(taken) = WINDOW
          /\ vReal = [k \in Idx |-> taken[k + 1]]
          /\ vImag = ZeroBuffer

\* the second window of an episode is acquired over the spectrum of the first
C29_Witness ==
    /\ pc = "w_windowing"
    /\ win = 1
    /\ taken = <<0, 1000, 0, 1000>>
    /\ engine_energy = 80

\* the EnergyProfile a run of the analyzer yields on buffer contents x, y:
\* windowing, transform, magnitudes, band sums
AnalyzeBuffer(x, y) ==
    LET w == [k \in Idx |-> Windowed(x[k], k)]
        re == DftRe(w, y)
        im == DftIm(w, y)
        m == [k \in Idx |-> Magnitude(re[k], im[k])]
    IN  <<SumOver(m, WLowBins), SumOver(m, WHighBins)>>

\* the magnitude spectrum of four real samples t[1..4], written out
SpectrumOf(t) ==
    LET a == Windowed(t[1], 0)
        b == Windowed(t[2], 1)
        c == Windowed(t[3], 2)
        d == Windowed(t[4], 3)
        side == ISqrt((a - c) * (a - c) + (d - b) * (d - b))
    IN  [k \in Idx |->
            CASE k = 0 -> a + b + c + d
              [] k = 2 -> IF a + c >= b + d THEN a - b + c - d ELSE b + d - a - c
              [] OTHER -> side]

\* C24 as stated: once a window has been analysed, running the analyzer again
\* on the same buffer yields the same EnergyProfile.
C24_Original ==
    pc = "w_done" => AnalyzeBuffer(vReal, vImag) = <<engine_energy, nature_energy>>

\* C24 amended: the EnergyProfile of a window is a function of the samples
\* acquired in that window alone, whatever earlier windows left behind; the
\* analysis runs in place, so that afterwards the buffer holds the magnitude
\* spectrum instead of the samples.
C24_PureOfSamples ==
    pc = "w_done" =>
        /\ vReal = SpectrumOf(taken)
        /\ engine_energy = SpectrumOf(taken)[1]
        /\ nature_energy = 0

\* a second window analysed: the buffer no longer holds its samples
C24_Witness ==
    /\ pc = "w_done"
    /\ win = 2
    /\ taken = <<1000, 0, 0, 0>>
    /\ engine_energy = 80
    /\ vReal = [k \in Idx |-> 80]

---------------------------------------------------------------------------
(* The dashboard: App (status polling, handleDeployment) and ForestSelector.
   Each status response is told apart by the number of the poll it answers:
   logs and activeAlertNodeId hold the number of the poll whose response
   filled them, nodes holds where the displayed list came from. *)

firmwareVars ==
    <<variant, pc, state, trace, wakeCause, radioOk, led, armed, piezo,
      vibVars, energyVars, tallyVars, verdict, txType, ret, sent,
      samplerInvoked, gwVars, heard, txBusy, elapsed, triggerPending, dspVars>>

appVars == <<systemStatus, nodes, logs, activeAlertNodeId, polls>>
selectorVars == <<selected, loading, deployReqs>>

\* what the forest <select> and the search box can put into selected
ForestChoices == {"", "MAU FOREST"}

\* useEffect(..., []): fetchData is created in the first render and keeps
\* reading the nodes of that render, useState([]) 
fetchData_nodes == "EMPTY"

Issued == {k \in PollIds : polls[k] # "unissued"}
Outstanding == {k \in PollIds : polls[k] = "pending"}
LastIssued == CHOOSE k \in Issued : \A j \in Issued : j <= k

\* fetchData(); setInterval(fetchData, 2000): the next poll starts, whatever
\* has become of the earlier ones
fetchData_issue ==
    /\ \E k \in PollIds :
        /\ polls[k] = "unissued"
        /\ \A j \in PollIds : j < k => polls[j] # "unissued"
        /\ polls' = [polls EXCEPT ![k] = "pending"]
    /\ UNCHANGED <<systemStatus, nodes, logs, activeAlertNodeId>>
    /\ UNCHANGED <<firmwareVars, selectorVars>>

\* the try block ran to its end on the response of poll k
fetchData_try ==
    /\ \E k \in Outstanding, withNodes \in BOOLEAN :
        /\ systemStatus' = "ONLINE"
        /\ nodes' = IF withNodes THEN "BACKEND" ELSE nodes
        /\ logs' = k
        /\ activeAlertNodeId' = k
        /\ polls' = [polls EXCEPT ![k] = "ok"]
    /\ UNCHANGED <<firmwareVars, selectorVars>>

\* poll k threw (network error, !res.ok, malformed body): the catch block
fetchData_catch ==
    /\ \E k \in Outstanding :
        polls' = [polls EXCEPT ![k] = "fail"]
    /\ systemStatus' = "OFFLINE (SIMULATION)"
    /\ nodes' = IF fetchData_nodes = "EMPTY" THEN "MOCK" ELSE nodes
    /\ UNCHANGED <<logs, activeAlertNodeId>>
    /\ UNCHANGED <<firmwareVars, selectorVars>>

\* onChange of the <select> and of the search box
setSelected ==
    /\ \E f \in ForestChoices : selected' = f
    /\ UNCHANGED <<loading, deployReqs>>
    /\ UNCHANGED <<firmwareVars, appVars>>

deployButton_alwaysEnabled == TRUE

\* disabled={loading || !selected}
deployButton_enabled == ~(loading \/ selected = "")

\* handleDeploy up to the first await
handleDeploy ==
    IF selected = ""
    THEN UNCHANGED <<loading, deployReqs>>
    ELSE /\ loading' = TRUE
         /\ deployReqs' = deployReqs + 1

deployButton_onClick ==
    /\ deployButton_enabled
    /\ handleDeploy
    /\ UNCHANGED selected
    /\ UNCHANGED <<firmwareVars, appVars>>

\* handleDeployment(data)
handleDeployment(hasNodes) ==
    nodes' = IF hasNodes THEN "DEPLOYED" ELSE nodes

\* the deploy request answered: onDeploy(data), then setLoading(false)
handleDeploy_resolved ==
    /\ deployReqs > 0
    /\ \E hasNodes \in BOOLEAN : handleDeployment(hasNodes)
    /\ loading' = FALSE
    /\ deployReqs' = deployReqs - 1
    /\ UNCHANGED <<systemStatus, logs, activeAlertNodeId, polls, selected>>
    /\ UNCHANGED firmwareVars

\* the deploy request failed: catch, then setLoading(false)
handleDeploy_rejected ==
    /\ deployReqs > 0
    /\ loading' = FALSE
    /\ deployReqs' = deployReqs - 1
    /\ UNCHANGED selected
    /\ UNCHANGED <<firmwareVars, appVars>>

InitDashboard ==
    /\ Init
    /\ variant = "PROD_GATEWAY"

NextDashboard ==
    \/ fetchData_issue
    \/ fetchData_try
    \/ fetchData_catch
    \/ setSelected
    \/ deployButton_onClick
    \/ handleDeploy_resolved
    \/ handleDeploy_rejected

SpecDashboard == InitDashboard /\ [][NextDashboard]_vars

TypeDashboard ==
    /\ systemStatus \in {"CONNECTING...", "ONLINE", "OFFLINE (SIMULATION)"}
    /\ nodes \in {"EMPTY", "BACKEND", "MOCK", "DEPLOYED"}
    /\ logs \in 0..MaxPolls
    /\ activeAlertNodeId \in 0..MaxPolls
    /\ polls \in [PollIds -> {"unissued", "pending", "ok", "fail"}]
    /\ selected \in ForestChoices
    /\ loading \in BOOLEAN
    /\ deployReqs \in Nat

\* C31: a failed status poll sets systemStatus to 'OFFLINE (SIMULATION)',
\* installs the mock nodes when the node list is empty and leaves a non-empty
\* node list as it is.
C31_Original ==
    [][(\E k \in PollIds : polls[k] = "pending" /\ polls'[k] = "fail")
         => /\ systemStatus' = "OFFLINE (SIMULATION)"
            /\ nodes = "EMPTY" => nodes' = "MOCK"
            /\ nodes # "EMPTY" => nodes' = nodes]_vars

\* C32: once no status response is outstanding, what is displayed (system
\* status, logs, active alert) is what the most recently issued poll
\* produced, in whatever order the responses arrived.
C32_Original ==
    (Issued # {} /\ Outstanding = {})
        => /\ polls[LastIssued] = "ok"
                => /\ systemStatus = "ONLINE"
                   /\ logs = LastIssued
                   /\ activeAlertNodeId = LastIssued
           /\ polls[LastIssued] = "fail"
                => systemStatus = "OFFLINE (SIMULATION)"

\* C33: at most one deploy request is in flight; loading is true exactly
\* while one is; a request is issued only with a forest selected; loading is
\* false once the request has finished, whether it succeeded or failed.
C33_OneDeployInFlight ==
    /\ [](deployReqs <= 1 /\ (loading <=> deployReqs = 1))
    /\ [][/\ deployReqs' > deployReqs => selected # ""
          /\ deployReqs' < deployReqs => ~loading']_vars

\* a second request is in flight after an earlier one installed its nodes
C33_Witness ==
    /\ nodes = "DEPLOYED"
    /\ loading
    /\ deployReqs = 1

====
